---- MODULE Spec2Model ----
(***************************************************************************)
(* Authentication state synchronisation of mitobyte-hack: the Jotai auth   *)
(* store and its orchestrators (src/store/authStore.ts), the AuthProvider   *)
(* session synchroniser (components/auth/AuthProvider.tsx), the tRPC client *)
(* links (utils/trpc.ts: errorLink and the httpBatchLink headers function), *)
(* and the server context builder and procedures (server/context.ts,        *)
(* server/routers/example.ts).                                              *)
(*                                                                          *)
(* Every await of the source is a suspension point: an asynchronous        *)
(* function is one action up to its first await, one action for the        *)
(* provider's side of each call, and one action per continuation.          *)
(***************************************************************************)
EXTENDS Integers, Sequences, FiniteSets, TLC

VARIABLES
  authState,       \* authStateAtom: the Store snapshot
  session,         \* the provider SDK's cached client session (supabase.auth)
  issued,          \* number of access tokens the provider has issued so far
  events,          \* provider events emitted to onAuthStateChange, not yet handled
  isMounted,       \* isMounted of the current AuthProvider effect closure
  initializingRef, \* initializingRef.current
  init,            \* the in-flight initialize() / initializeAuthAtom run
  signIn,          \* the in-flight signInAtom run
  signUp,          \* the in-flight signUpAtom run
  signOut,         \* the in-flight signOutAtom run
  call,            \* the outgoing tRPC call whose headers() is being computed
  uncleared,       \* history: the provider's session survived a completed sign-out
  granted,         \* server: the tokens the provider accepts, each with its user
  request,         \* the batched HTTP request in flight: its header and operations
  ctx,             \* server: the Context createContext built for the request
  responses,       \* per operation of the batch: the server's result and its delivery
  redirects,       \* times errorLink assigned window.location.href for this batch
  fetch,           \* React Query: the query or mutation being run, with its retries
  lastVerified     \* history: the token whose verification last gave a context user

vars == <<authState, session, issued, events, isMounted, initializingRef,
          init, signIn, signUp, signOut, call, uncleared,
          granted, request, ctx, responses, redirects, fetch, lastVerified>>

clientVars == <<authState, session, issued, events, isMounted, initializingRef,
                init, signIn, signUp, signOut, call, uncleared>>

serverVars == <<granted, request, ctx, responses, redirects, fetch, lastVerified>>

----------------------------------------------------------------------------
(* Bounds of the model *)

MaxTokens == 2     \* access tokens the provider may issue in one behaviour
MaxEvents == 1     \* provider events waiting for the onAuthStateChange handler
MaxBatch == 2      \* operations in one batched HTTP request

----------------------------------------------------------------------------
(* Values *)

\* JavaScript null for a User / a Session / an error string.
NullUser == [null |-> "user"]
NoSession == [null |-> "session"]
NoError == "<null>"

\* The provider's accounts (SupabaseUser): id, email, user_metadata.name.
\* An e-mail address is the sequence of its parts around '@'; a missing
\* user_metadata.name is the empty string (both are falsy for ||).
SupabaseUsers ==
  { [id |-> "u1", email |-> <<"al", "x.io">>, metaName |-> "Al"],
    [id |-> "u2", email |-> <<"bo", "x.io">>, metaName |-> ""] }

\* An access token: "t1", "t2", ...
Tok(i) == "t" \o ToString(i)

Messages == {"boom"}
DefaultInitMessage == "Authentication initialization failed"

\* What a rejected provider promise carries: an Error with a message, or a
\* value without one.
Thrown == {[message |-> m] : m \in Messages} \cup {[message |-> ""]}

----------------------------------------------------------------------------
(* src/store/authStore.ts: the Store and its synchronous transitions *)

\* name: user_metadata?.name || email.split('@')[0]
ToUser(su) ==
  [id |-> su.id,
   email |-> su.email,
   name |-> IF su.metaName # "" THEN su.metaName ELSE su.email[1]]

InitialAuthState ==
  [isAuthenticated |-> FALSE, user |-> NullUser, loading |-> TRUE,
   error |-> NoError, loggingOut |-> FALSE]

LoggedOutState ==
  [isAuthenticated |-> FALSE, user |-> NullUser, loading |-> FALSE,
   error |-> NoError, loggingOut |-> FALSE]

AuthenticatedState(user) ==
  [isAuthenticated |-> TRUE, user |-> user, loading |-> FALSE,
   error |-> NoError, loggingOut |-> FALSE]

ErrorState(message) ==
  [isAuthenticated |-> FALSE, user |-> NullUser, loading |-> FALSE,
   error |-> message, loggingOut |-> FALSE]

\* A setter that spread the current error whatever the flag.
SetLoadingKeepsError(s, loading) == [s EXCEPT !.loading = loading]

\* setLoadingAtom: {...currentState, loading, error: loading ? null : currentState.error}
SetLoading(s, loading) ==
  [s EXCEPT !.loading = loading,
            !.error = IF loading THEN NoError ELSE s.error]

\* A clearError that also stopped loading.
ClearErrorOfStopsLoading(s) == [s EXCEPT !.error = NoError, !.loading = FALSE]

\* clearErrorAtom: {...currentState, error: null}
ClearErrorOf(s) == [s EXCEPT !.error = NoError]

----------------------------------------------------------------------------
(* The remote auth provider (supabase.auth), an external collaborator. A    *)
(* call that reads or changes the provider's session takes effect at the    *)
(* provider in one step and hands the caller a result that the caller's     *)
(* continuation consumes in a later step. An answer that neither reads nor  *)
(* changes the session (an error result, a rejection, a user without a      *)
(* session) has no effect to order, so the continuation draws it directly.  *)

NoResult == [kind |-> "none"]

\* The subscription of onAuthStateChange exists while the effect is mounted;
\* an event emitted without a subscriber is delivered to nobody. The
\* callback reads event and session?.user only, so an event is kept as
\* [event, user], user being session?.user.
CanEmit == ~isMounted \/ Len(events) < MaxEvents
SessionUser(sess) == IF sess = NoSession THEN NullUser ELSE sess.user
Emit(event, sess) ==
  IF isMounted THEN Append(events, [event |-> event, user |-> SessionUser(sess)])
  ELSE events

\* getSession() failing: {data: {session: null}, error}, or a rejection.
GetSessionFailures ==
  {[kind |-> "error", message |-> m] : m \in Messages}
    \cup {[kind |-> "throw", thrown |-> t] : t \in Thrown}

\* The same, for the callers that never look at what the failure carries.
GetSessionFailed == {[kind |-> "error"], [kind |-> "throw"]}

\* A lookup whose session is never kept.
SessionOfDiscarded(res) == NoSession

\* The session a getSession result destructures to ({data: {session}}).
SessionOf(res) == IF res.kind = "ok" THEN res.session ELSE NoSession

\* signInWithPassword / signUp answering without an established session:
\* a user whose confirmation is pending, no user, an error, a rejection.
CredentialFailures ==
  {[kind |-> "ok", user |-> su, session |-> NoSession] : su \in SupabaseUsers}
    \cup {[kind |-> "ok", user |-> NullUser, session |-> NoSession]}
    \cup {[kind |-> "error", message |-> m] : m \in Messages}
    \cup {[kind |-> "throw", thrown |-> m] : m \in Messages}

\* signInWithPassword / signUp establishing a session for su: the provider
\* issues a new token, caches the session and emits SIGNED_IN.
Establish(su) ==
  /\ issued < MaxTokens
  /\ CanEmit
  /\ session' = [access_token |-> Tok(issued + 1), user |-> su]
  /\ issued' = issued + 1
  /\ events' = Emit("SIGNED_IN", session')
  /\ uncleared' = FALSE

\* signOut({scope: 'global'}) succeeding: the session is removed and
\* SIGNED_OUT is emitted.
RemoveSession ==
  /\ CanEmit
  /\ session' = NoSession
  /\ events' = Emit("SIGNED_OUT", NoSession)
  /\ uncleared' = FALSE
  /\ UNCHANGED issued

\* signOut returning {error} or rejecting: the session stays.
SignOutFailures == {[kind |-> "error"], [kind |-> "throw"]}

\* The provider reports a token refresh, a user update, or an event the
\* handler does not know (INITIAL_SESSION), with the session it holds.
ProviderEvent ==
  /\ isMounted
  /\ Len(events) < MaxEvents
  /\ \E e \in {"TOKEN_REFRESHED", "USER_UPDATED", "INITIAL_SESSION"} :
       /\ e # "INITIAL_SESSION" => session # NoSession
       /\ events' = Emit(e, session)
  /\ UNCHANGED <<authState, session, issued, isMounted, initializingRef,
                 init, signIn, signUp, signOut, call, uncleared, serverVars>>

\* The callback's session parameter is Session | null: the provider hands
\* over an event of the three kinds that carry a session without one.
ProviderEventNoSession ==
  /\ isMounted
  /\ Len(events) < MaxEvents
  /\ \E e \in {"SIGNED_IN", "TOKEN_REFRESHED", "USER_UPDATED"} :
       events' = Emit(e, NoSession)
  /\ UNCHANGED <<authState, session, issued, isMounted, initializingRef,
                 init, signIn, signUp, signOut, call, uncleared, serverVars>>

----------------------------------------------------------------------------
(* components/auth/AuthProvider.tsx: the session synchroniser *)

IdleInit == [pc |-> "idle", res |-> NoResult, closureMounted |-> FALSE]

\* A catch block without the default message: error: error?.message.
InitOutcomeNoDefault(res) ==
  IF res.kind = "error" THEN ErrorState(res.message)
  ELSE IF res.kind = "throw"
    THEN ErrorState(IF res.thrown.message # "" THEN res.thrown.message ELSE NoError)
  ELSE IF res.session # NoSession
    THEN AuthenticatedState(ToUser(res.session.user))
  ELSE LoggedOutState

\* An initializeAuthAtom without its catch block: a rejected lookup leaves
\* the Store as setLoading(true) made it.
InitOutcomeUncaught(res) ==
  IF res.kind = "error" THEN ErrorState(res.message)
  ELSE IF res.kind = "throw" THEN SetLoading(InitialAuthState, TRUE)
  ELSE IF res.session # NoSession
    THEN AuthenticatedState(ToUser(res.session.user))
  ELSE LoggedOutState

\* initializeAuthAtom after its getSession returned: the error branch, the
\* session branch, the no-session branch and the catch block.
InitOutcome(res) ==
  IF res.kind = "error" THEN ErrorState(res.message)
  ELSE IF res.kind = "throw"
    THEN ErrorState(IF res.thrown.message # "" THEN res.thrown.message
                    ELSE DefaultInitMessage)
  ELSE IF res.session # NoSession
    THEN AuthenticatedState(ToUser(res.session.user))
  ELSE LoggedOutState

\* An initialize() without its guard.
InitializeNeverSuppressed == FALSE

\* initialize()'s guard: if (initializingRef.current) return;
InitializeSuppressed == initializingRef

\* The effect runs again: isMounted = true, initialize() up to its await (a no-op
\* when initializingRef.current is set), and onAuthStateChange subscribes.
Mount ==
  /\ ~isMounted
  /\ isMounted' = TRUE
  /\ IF InitializeSuppressed
     THEN UNCHANGED <<initializingRef, init, authState>>
     ELSE /\ initializingRef' = TRUE
          /\ authState' = SetLoading(authState, TRUE)
          /\ init' = [pc |-> "getSession", res |-> NoResult, closureMounted |-> TRUE]
  /\ UNCHANGED <<session, issued, events, signIn, signUp, signOut, call,
                 uncleared, serverVars>>

\* The effect's cleanup: isMounted = false in that closure, unsubscribe.
Unmount ==
  /\ isMounted
  /\ isMounted' = FALSE
  /\ init' = [init EXCEPT !.closureMounted = FALSE]
  /\ events' = <<>>
  /\ UNCHANGED <<authState, session, issued, initializingRef, signIn, signUp,
                 signOut, call, uncleared, serverVars>>

\* The provider reads its session for the start-up getSession().
InitGetSession ==
  /\ init.pc = "getSession"
  /\ init' = [init EXCEPT !.pc = "resume", !.res = [kind |-> "ok", session |-> session]]
  /\ UNCHANGED <<authState, session, issued, events, isMounted,
                 initializingRef, signIn, signUp, signOut, call, uncleared, serverVars>>

\* initializeAuthAtom continues after its await, with the session read or
\* with a failure, and writes the Store; its promise resolves, and
\* initialize(), awaiting it, resumes in a later step.
InitResume ==
  /\ \E r \in IF init.pc = "resume" THEN {init.res}
              ELSE IF init.pc = "getSession" THEN GetSessionFailures ELSE {} :
       authState' = InitOutcome(r)
  /\ init' = [init EXCEPT !.pc = "returned", !.res = NoResult]
  /\ UNCHANGED <<session, issued, events, isMounted, initializingRef, signIn,
                 signUp, signOut, call, uncleared, serverVars>>

\* initialize() continues after "await initializeAuth()": its finally
\* clears initializingRef when the closure's isMounted is still true.
InitReturned ==
  /\ init.pc = "returned"
  /\ initializingRef' = IF init.closureMounted THEN FALSE ELSE initializingRef
  /\ init' = IdleInit
  /\ UNCHANGED <<authState, session, issued, events, isMounted, signIn, signUp,
                 signOut, call, uncleared, serverVars>>

\* A callback that took a missing session user for a sign-out.
OnAuthStateChangeNoUserSignsOut(s, event, sessionUser) ==
  IF event = "SIGNED_OUT" \/ sessionUser = NullUser THEN LoggedOutState
  ELSE IF event \in {"SIGNED_IN", "TOKEN_REFRESHED", "USER_UPDATED"}
    THEN AuthenticatedState(ToUser(sessionUser))
  ELSE s

\* The body of the onAuthStateChange callback once its guard has passed.
\* sessionUser is session?.user.
OnAuthStateChange(s, event, sessionUser) ==
  IF event \in {"SIGNED_IN", "TOKEN_REFRESHED"}
    THEN IF sessionUser # NullUser THEN AuthenticatedState(ToUser(sessionUser)) ELSE s
  ELSE IF event = "SIGNED_OUT" THEN LoggedOutState
  ELSE IF event = "USER_UPDATED" /\ sessionUser # NullUser
    THEN AuthenticatedState(ToUser(sessionUser))
  ELSE s

\* A guard that looks at isMounted only.
EventDroppedWhenUnmounted == ~isMounted

\* The callback's guard: if (!isMounted || initializingRef.current) return;
EventDropped == ~isMounted \/ initializingRef

\* The provider delivers the oldest pending event to the callback.
HandleEvent ==
  /\ events # <<>>
  /\ events' = Tail(events)
  /\ authState' = IF EventDropped THEN authState
                  ELSE OnAuthStateChange(authState, Head(events).event,
                                         Head(events).user)
  /\ UNCHANGED <<session, issued, isMounted, initializingRef, init, signIn,
                 signUp, signOut, call, uncleared, serverVars>>

----------------------------------------------------------------------------
(* src/store/authStore.ts: signInAtom and signUpAtom *)

IdleProc == [pc |-> "idle", res |-> NoResult]

\* A continuation that took every answer without an error for a sign-in.
CredentialsOutcomeUnchecked(s, res) ==
  IF res.kind = "error" THEN SetLoading(s, FALSE)
  ELSE IF res.kind = "throw" THEN SetLoading(s, FALSE)
  ELSE [AuthenticatedState(NullUser) EXCEPT
          !.user = IF res.user # NullUser THEN ToUser(res.user) ELSE NullUser]

\* A continuation that put the provider's error into the Store.
CredentialsOutcomeStoresError(s, res) ==
  IF res.kind = "error" THEN ErrorState(res.message)
  ELSE IF res.kind = "throw" THEN SetLoading(s, FALSE)
  ELSE IF res.user # NullUser /\ res.session # NoSession
    THEN AuthenticatedState(ToUser(res.user))
  ELSE SetLoading(s, FALSE)

\* A continuation that tested data.user alone before replacing the state.
CredentialsOutcomeUserOnly(s, res) ==
  IF res.kind = "error" THEN SetLoading(SetLoading(s, FALSE), FALSE)
  ELSE IF res.kind = "throw" THEN SetLoading(s, FALSE)
  ELSE IF res.user # NullUser
    THEN AuthenticatedState(ToUser(res.user))
  ELSE SetLoading(s, FALSE)

\* A continuation whose pending-confirmation branch forgot setLoading(false).
CredentialsOutcomeLeavesLoading(s, res) ==
  IF res.kind = "error" THEN SetLoading(SetLoading(s, FALSE), FALSE)
  ELSE IF res.kind = "throw" THEN SetLoading(s, FALSE)
  ELSE IF res.user # NullUser /\ res.session # NoSession
    THEN AuthenticatedState(ToUser(res.user))
  ELSE s

\* The Store after the continuation of signInAtom / signUpAtom: an error
\* result does setLoading(false) and throws into the catch block, which does
\* setLoading(false) again; data.user && data.session replaces the state.
CredentialsOutcome(s, res) ==
  IF res.kind = "error" THEN SetLoading(SetLoading(s, FALSE), FALSE)
  ELSE IF res.kind = "throw" THEN SetLoading(s, FALSE)
  ELSE IF res.user # NullUser /\ res.session # NoSession
    THEN AuthenticatedState(ToUser(res.user))
  ELSE SetLoading(s, FALSE)

\* The user both atoms build from data.user for their return value.
ReturnedUser(res) == IF res.user # NullUser THEN ToUser(res.user) ELSE NullUser

\* What a failed run throws to its caller: the provider's error, or
\* whatever the provider call rejected with.
CredentialsThrow(res) ==
  [threw |-> TRUE, error |-> IF res.kind = "error" THEN res.message ELSE res.thrown]

\* A result whose needsConfirmation repeats the test of success.
SignInReturnCopiedFlag(res) ==
  IF res.kind \in {"error", "throw"} THEN CredentialsThrow(res)
  ELSE [threw |-> FALSE,
        user |-> ReturnedUser(res),
        needsConfirmation |-> (res.user # NullUser /\ res.session # NoSession),
        success |-> (res.user # NullUser /\ res.session # NoSession)]

\* signInAtom's result: success: !!(data.user && data.session).
SignInReturn(res) ==
  IF res.kind \in {"error", "throw"} THEN CredentialsThrow(res)
  ELSE [threw |-> FALSE,
        user |-> ReturnedUser(res),
        needsConfirmation |-> (res.user # NullUser /\ res.session = NoSession),
        success |-> (res.user # NullUser /\ res.session # NoSession)]

\* signUpAtom's result: success: !!data.user.
SignUpReturn(res) ==
  IF res.kind \in {"error", "throw"} THEN CredentialsThrow(res)
  ELSE [threw |-> FALSE,
        user |-> ReturnedUser(res),
        needsConfirmation |-> (res.user # NullUser /\ res.session = NoSession),
        success |-> (res.user # NullUser)]

\* The results a run's continuation may resume with.
CredentialResults(proc) ==
  IF proc.pc = "resume" THEN {proc.res}
  ELSE IF proc.pc = "provider" THEN CredentialFailures ELSE {}

SignInStart ==
  /\ signIn.pc = "idle"
  /\ authState' = SetLoading(authState, TRUE)
  /\ signIn' = [signIn EXCEPT !.pc = "provider"]
  /\ UNCHANGED <<session, issued, events, isMounted, initializingRef, init,
                 signUp, signOut, call, uncleared, serverVars>>

SignInProvider ==
  /\ signIn.pc = "provider"
  /\ \E su \in SupabaseUsers :
       /\ Establish(su)
       /\ signIn' = [pc |-> "resume",
                     res |-> [kind |-> "ok", user |-> su, session |-> session']]
  /\ UNCHANGED <<authState, isMounted, initializingRef, init, signUp, signOut, call,
                 serverVars>>

SignInResume ==
  /\ \E r \in CredentialResults(signIn) :
       authState' = CredentialsOutcome(authState, r)
  /\ signIn' = IdleProc
  /\ UNCHANGED <<session, issued, events, isMounted, initializingRef, init,
                 signUp, signOut, call, uncleared, serverVars>>

\* The same continuation seen together with its caller: the run's result
\* (ret) is kept until LoginForm's handleSubmit has resumed.
SignInSettle ==
  /\ \E r \in CredentialResults(signIn) :
       /\ authState' = CredentialsOutcome(authState, r)
       /\ signIn' = [pc |-> "returned", res |-> NoResult, ret |-> SignInReturn(r)]
  /\ UNCHANGED <<session, issued, events, isMounted, initializingRef, init,
                 signUp, signOut, call, uncleared, serverVars>>

\* LoginForm's handleSubmit resumes after await signIn(...).
SignInReturned ==
  /\ signIn.pc = "returned"
  /\ signIn' = IdleProc
  /\ UNCHANGED <<authState, session, issued, events, isMounted, initializingRef,
                 init, signUp, signOut, call, uncleared, serverVars>>

SignUpStart ==
  /\ signUp.pc = "idle"
  /\ authState' = SetLoading(authState, TRUE)
  /\ signUp' = [signUp EXCEPT !.pc = "provider"]
  /\ UNCHANGED <<session, issued, events, isMounted, initializingRef, init,
                 signIn, signOut, call, uncleared, serverVars>>

SignUpProvider ==
  /\ signUp.pc = "provider"
  /\ \E su \in SupabaseUsers :
       /\ Establish(su)
       /\ signUp' = [pc |-> "resume",
                     res |-> [kind |-> "ok", user |-> su, session |-> session']]
  /\ UNCHANGED <<authState, isMounted, initializingRef, init, signIn, signOut, call,
                 serverVars>>

SignUpResume ==
  /\ \E r \in CredentialResults(signUp) :
       authState' = CredentialsOutcome(authState, r)
  /\ signUp' = IdleProc
  /\ UNCHANGED <<session, issued, events, isMounted, initializingRef, init,
                 signIn, signOut, call, uncleared, serverVars>>

\* The same continuation seen together with its caller: the run's result
\* (ret) is kept until SignupForm's handleSubmit has resumed.
SignUpSettle ==
  /\ \E r \in CredentialResults(signUp) :
       /\ authState' = CredentialsOutcome(authState, r)
       /\ signUp' = [pc |-> "returned", res |-> NoResult, ret |-> SignUpReturn(r)]
  /\ UNCHANGED <<session, issued, events, isMounted, initializingRef, init,
                 signIn, signOut, call, uncleared, serverVars>>

\* SignupForm's handleSubmit resumes after await signUp(...).
SignUpReturned ==
  /\ signUp.pc = "returned"
  /\ signUp' = IdleProc
  /\ UNCHANGED <<authState, session, issued, events, isMounted, initializingRef,
                 init, signIn, signOut, call, uncleared, serverVars>>

\* setLoadingAtom set from outside the orchestrators (AuthProvider holds
\* its setter): any boolean, at any moment.
SetLoadingCall ==
  /\ \E loading \in BOOLEAN :
       /\ SetLoading(authState, loading) # authState
       /\ authState' = SetLoading(authState, loading)
  /\ UNCHANGED <<session, issued, events, isMounted, initializingRef, init,
                 signIn, signUp, signOut, call, uncleared, serverVars>>

\* useAuth().clearError
ClearError ==
  /\ authState.error # NoError
  /\ authState' = ClearErrorOf(authState)
  /\ UNCHANGED <<session, issued, events, isMounted, initializingRef, init,
                 signIn, signUp, signOut, call, uncleared, serverVars>>

----------------------------------------------------------------------------
(* src/store/authStore.ts: signOutAtom, and its caller in Header.tsx *)

\* began: the number of tokens issued when the run started on an
\* authenticated Store (0 otherwise); exit: how the run ended, kept until
\* its caller has resumed.
IdleSignOut == [pc |-> "idle", res |-> NoResult, exit |-> "none", began |-> 0]

\* A first write that already cleared the identity.
LoggingOutStateEager(s) == [LoggedOutState EXCEPT !.loggingOut = TRUE]

\* The first write of signOutAtom: {...currentState, loggingOut: true}
LoggingOutState(s) == [s EXCEPT !.loggingOut = TRUE]

\* A final write that forgot the flag.
SignOutFinalKeepsFlag == [LoggedOutState EXCEPT !.loggingOut = TRUE]

\* The write at the end of the try block.
SignOutFinalState == LoggedOutState

\* A catch block that only logged the error.
SignOutCatchLogsOnly == authState

\* A catch block whose write left the flag set.
SignOutCatchKeepsFlag == [LoggedOutState EXCEPT !.loggingOut = TRUE]

\* The write of the catch block.
SignOutCatchState == LoggedOutState

\* The index of an issued token: Tok(TokenIndex(t)) = t.
TokenIndex(t) == CHOOSE i \in 1..issued : Tok(i) = t

\* A session the Store was authenticated with when the run began, and
\* which the provider still holds now, is one this sign-out failed to clear.
NotCleared ==
  session # NoSession /\ TokenIndex(session.access_token) <= signOut.began

\* The run's last write, after which signOutAtom returns.
SignOutReturn(state, exit) ==
  /\ authState' = state
  /\ signOut' = [IdleSignOut EXCEPT !.pc = "returned", !.exit = exit]
  /\ uncleared' = (uncleared \/ NotCleared)

\* The results the continuation after a provider signOut may resume with.
SignOutResults(pcCall, pcResume) ==
  IF signOut.pc = pcResume THEN {signOut.res}
  ELSE IF signOut.pc = pcCall THEN SignOutFailures ELSE {}

SignOutStart ==
  /\ signOut.pc = "idle"
  /\ authState' = LoggingOutState(authState)
  /\ signOut' = [pc |-> "signOut1", res |-> NoResult, exit |-> "none",
                 began |-> IF authState.isAuthenticated THEN issued ELSE 0]
  /\ UNCHANGED <<session, issued, events, isMounted, initializingRef, init,
                 signIn, signUp, call, uncleared, serverVars>>

SignOutProvider1 ==
  /\ signOut.pc = "signOut1"
  /\ RemoveSession
  /\ signOut' = [signOut EXCEPT !.pc = "resume1", !.res = [kind |-> "ok"]]
  /\ UNCHANGED <<authState, isMounted, initializingRef, init, signIn, signUp,
                 call, serverVars>>

\* After the first signOut: log an error result, then call getSession; a
\* rejection goes to the catch block.
SignOutResume1 ==
  /\ \E r \in SignOutResults("signOut1", "resume1") :
       IF r.kind = "throw"
       THEN SignOutReturn(SignOutCatchState, "caught")
       ELSE /\ signOut' = [signOut EXCEPT !.pc = "getSession", !.res = NoResult]
            /\ UNCHANGED <<authState, uncleared>>
  /\ UNCHANGED <<session, issued, events, isMounted, initializingRef, init,
                 signIn, signUp, call, serverVars>>

\* The provider reads its session for the verification getSession().
SignOutGetSession ==
  /\ signOut.pc = "getSession"
  /\ signOut' = [signOut EXCEPT !.pc = "resumeVerify",
                                !.res = [kind |-> "ok", session |-> session]]
  /\ UNCHANGED <<authState, session, issued, events, isMounted,
                 initializingRef, init, signIn, signUp, call, uncleared, serverVars>>

\* After the verification: retry signOut if a session is still there.
SignOutResumeVerify ==
  /\ \E r \in IF signOut.pc = "resumeVerify" THEN {signOut.res}
              ELSE IF signOut.pc = "getSession" THEN GetSessionFailed ELSE {} :
       IF r.kind = "throw"
         THEN SignOutReturn(SignOutCatchState, "caught")
       ELSE IF SessionOf(r) # NoSession
         THEN /\ signOut' = [signOut EXCEPT !.pc = "signOut2", !.res = NoResult]
              /\ UNCHANGED <<authState, uncleared>>
       ELSE SignOutReturn(SignOutFinalState, "cleared")
  /\ UNCHANGED <<session, issued, events, isMounted, initializingRef, init,
                 signIn, signUp, call, serverVars>>

SignOutProvider2 ==
  /\ signOut.pc = "signOut2"
  /\ RemoveSession
  /\ signOut' = [signOut EXCEPT !.pc = "resume2", !.res = [kind |-> "ok"]]
  /\ UNCHANGED <<authState, isMounted, initializingRef, init, signIn, signUp,
                 call, serverVars>>

SignOutResume2 ==
  /\ \E r \in SignOutResults("signOut2", "resume2") :
       IF r.kind = "throw"
       THEN SignOutReturn(SignOutCatchState, "caught")
       ELSE SignOutReturn(SignOutFinalState, "retried")
  /\ UNCHANGED <<session, issued, events, isMounted, initializingRef, init,
                 signIn, signUp, call, serverVars>>

\* A catch block that threw the error on after its write.
SignOutCompletionRethrows(exit) == IF exit = "caught" THEN "throws" ELSE "returns"

\* How the promise of signOutAtom settles for each way the run ended: the
\* try block runs to its end, and the catch block ends without a throw.
SignOutCompletion(exit) ==
  IF exit \in {"cleared", "retried", "caught"} THEN "returns" ELSE "throws"

\* handleLogout resumes after await signOut() and navigates to '/'.
SignOutReturned ==
  /\ signOut.pc = "returned"
  /\ signOut' = IdleSignOut
  /\ UNCHANGED <<authState, session, issued, events, isMounted, initializingRef,
                 init, signIn, signUp, call, uncleared, serverVars>>

----------------------------------------------------------------------------
(* utils/trpc.ts: the headers function of httpBatchLink *)

\* A header value is the sequence of its characters, a token counting as
\* one; no authorization header is the empty sequence.
NoHeader == <<>>
BearerPrefix == <<"B", "e", "a", "r", "e", "r", " ">>
Bearer(token) == BearerPrefix \o <<token>>

\* headers() without its third branch: every unauthenticated snapshot asks
\* the provider.
HeadersBranchAlwaysAsks(s) == IF s.isAuthenticated THEN 1 ELSE 2

\* headers() without its second branch, as docs/TEST-INSTRUCTIONS.md lists
\* it: if (!authState.isAuthenticated) return {}.
HeadersBranchAuthenticatedOnly(s) == IF s.isAuthenticated THEN 1 ELSE 3

\* A headers() that sent nothing once a sign-out had set its flag.
HeadersBranchBlocksLoggingOut(s) ==
  IF s.loggingOut THEN 3
  ELSE IF s.isAuthenticated THEN 1 ELSE IF s.loading THEN 2 ELSE 3

\* The branch headers() takes on the snapshot it reads: 1 authenticated,
\* 2 still initializing, 3 definitively logged out.
HeadersBranch(s) ==
  IF s.isAuthenticated THEN 1 ELSE IF s.loading THEN 2 ELSE 3

\* session?.access_token of the session a getSession result holds ("" for
\* none, which is falsy like undefined).
AccessToken(sess) == IF sess = NoSession THEN "" ELSE sess.access_token

\* Branches that build the header without testing session?.access_token.
HeadersResultUntested(branch, token) ==
  IF branch \in {1, 2} THEN Bearer(token) ELSE NoHeader

\* What branches 1 and 2 return for the access token getSession gave them.
HeadersResult(branch, token) ==
  IF branch \in {1, 2} /\ token # "" THEN Bearer(token) ELSE NoHeader

\* What headers() reads of the Store.
Snapshot(s) == [isAuthenticated |-> s.isAuthenticated, loading |-> s.loading]

\* snap: the Store as headers() read it; lookup: the access token
\* getSession gave, or "none", "throw", or "skipped" when it was not called;
\* header: what headers() returned; stale: the token of the uncleared
\* session the provider held when the evaluation began ("" if none).
IdleCall ==
  [pc |-> "idle", snap |-> Snapshot(InitialAuthState), lookup |-> "skipped",
   header |-> NoHeader, stale |-> ""]

\* headers() reads the Store; branch 3 returns {} at once, no await.
CallStart ==
  /\ call.pc = "idle"
  /\ call' = [pc |-> IF HeadersBranch(authState) = 3 THEN "sent" ELSE "getSession",
              snap |-> Snapshot(authState), lookup |-> "skipped",
              header |-> NoHeader,
              stale |-> IF uncleared THEN AccessToken(session) ELSE ""]
  /\ UNCHANGED <<authState, session, issued, events, isMounted,
                 initializingRef, init, signIn, signUp, signOut, uncleared, serverVars>>

\* The provider reads its session for the getSession() headers() awaits.
CallGetSession ==
  /\ call.pc = "getSession"
  /\ call' = [call EXCEPT !.pc = "resume",
                          !.lookup = IF AccessToken(session) # ""
                                     THEN AccessToken(session) ELSE "none"]
  /\ UNCHANGED <<authState, session, issued, events, isMounted,
                 initializingRef, init, signIn, signUp, signOut, uncleared, serverVars>>

\* headers() continues after the await with the token of the session read,
\* or with a lookup that failed, and returns; a rejection fails the call
\* before any request is sent. The Store is not read again.
CallResume ==
  /\ \E l \in IF call.pc = "resume" THEN {call.lookup}
              ELSE IF call.pc = "getSession" THEN {"none", "throw"} ELSE {} :
       call' = [call EXCEPT !.pc = IF l = "throw" THEN "failed" ELSE "sent",
                            !.lookup = l,
                            !.header = IF l = "throw" THEN NoHeader
                                       ELSE HeadersResult(HeadersBranch(call.snap),
                                                          IF l = "none" THEN "" ELSE l)]
  /\ UNCHANGED <<authState, session, issued, events, isMounted,
                 initializingRef, init, signIn, signUp, signOut, uncleared, serverVars>>

\* The call has left (or failed); the next call may be issued.
CallDone ==
  /\ call.pc \in {"sent", "failed"}
  /\ call' = IdleCall
  /\ UNCHANGED <<authState, session, issued, events, isMounted,
                 initializingRef, init, signIn, signUp, signOut, uncleared, serverVars>>

----------------------------------------------------------------------------
(* server/context.ts: createContext *)

StartsWith(h, prefix) ==
  Len(h) >= Len(prefix) /\ SubSeq(h, 1, Len(prefix)) = prefix

\* authHeader.substring(7)
Substring7(h) == SubSeq(h, 8, Len(h))

\* A check that decodes the token where it stands and never asks the
\* provider: every token yields the user it was issued to.
GetUserResultsLocal(token) ==
  {[kind |-> "ok", user |-> su, error |-> FALSE] : su \in SupabaseUsers}

\* supabaseAdmin.auth.getUser(token): {data: {user}, error} or a rejection.
\* The provider returns a user only for a token it accepts; it may also
\* answer with an error, or with neither user nor error.
GetUserResults(token) ==
  {[kind |-> "ok", user |-> g.user, error |-> FALSE] :
      g \in {x \in granted : <<x.token>> = token}}
    \cup {[kind |-> "ok", user |-> NullUser, error |-> TRUE],
          [kind |-> "ok", user |-> NullUser, error |-> FALSE],
          [kind |-> "throw"]}

\* A createContext that verified whatever header it was given.
VerifiesAnyHeader(authHeader) == authHeader # NoHeader

\* The getUser call is made only for a header that starts with 'Bearer '.
Verifies(authHeader) == authHeader # NoHeader /\ StartsWith(authHeader, BearerPrefix)

\* A context user whose id is taken from the e-mail address.
ContextUserOfEmail(su) ==
  [id |-> su.email[1],
   email |-> su.email,
   name |-> IF su.metaName # "" THEN su.metaName ELSE su.email[1]]

\* user = {id, email, name} built from supabaseUser.
ContextUserOf(su) ==
  [id |-> su.id,
   email |-> su.email,
   name |-> IF su.metaName # "" THEN su.metaName ELSE su.email[1]]

\* The user createContext returns for the header and, when it verified,
\* the result of getUser.
ContextUser(authHeader, res) ==
  IF Verifies(authHeader) /\ res.kind = "ok" /\ ~res.error /\ res.user # NullUser
  THEN ContextUserOf(res.user)
  ELSE NullUser

----------------------------------------------------------------------------
(* server/routers/example.ts and the procedure guard of server/trpc.ts *)

Paths == {"hello", "getAll", "getUser", "updateProfile"}

\* A router that built every procedure with publicProcedure.
ProcKindAllPublic(path) == "public"

\* The procedure builder each path of exampleRouter uses.
ProcKind(path) ==
  IF path \in {"hello", "getAll"} THEN "public" ELSE "protected"

\* The inputs a call of the path may carry; updateProfile's name is
\* optional ("" stands for an omitted name, falsy for ||).
Inputs(path) ==
  IF path = "hello" THEN {[text |-> "World"]}
  ELSE IF path = "updateProfile" THEN {[name |-> ""], [name |-> "Neo"]}
  ELSE {[none |-> TRUE]}

Operations == UNION {{[path |-> p, input |-> i] : i \in Inputs(p)} : p \in Paths}

\* The resolver of each path: the data it returns, or the error tRPC
\* makes of an exception in it. updateProfile spreads ctx.user (a null user
\* spreads to nothing) and reads ctx.user.name only when input.name is
\* falsy: with a null user that read throws, with a name given the user
\* returned has the name and nothing else.
Handler(op, c) ==
  IF op.path = "hello"
    THEN [kind |-> "data", data |-> [greeting |-> "Hello " \o op.input.text]]
  ELSE IF op.path = "getAll"
    THEN [kind |-> "data",
          data |-> <<[id |-> 1, text |-> "First post"], [id |-> 2, text |-> "Second post"]>>]
  ELSE IF op.path = "getUser" THEN [kind |-> "data", data |-> [user |-> c.user]]
  ELSE IF c.user = NullUser
    THEN IF op.input.name # ""
         THEN [kind |-> "data",
               data |-> [success |-> TRUE, user |-> [name |-> op.input.name]]]
         ELSE [kind |-> "error", code |-> "INTERNAL_SERVER_ERROR"]
  ELSE [kind |-> "data",
        data |-> [success |-> TRUE,
                  user |-> [c.user EXCEPT !.name = IF op.input.name # ""
                                                   THEN op.input.name
                                                   ELSE c.user.name]]]

\* protectedProcedure's middleware: if (!ctx.user) throw UNAUTHORIZED.
Guard(c) == c.user # NullUser

\* The result of one operation of the batch under the request's context.
CallProcedure(op, c) ==
  IF ProcKind(op.path) = "protected" /\ ~Guard(c)
  THEN [kind |-> "error", code |-> "UNAUTHORIZED"]
  ELSE Handler(op, c)

----------------------------------------------------------------------------
(* utils/trpc.ts: errorLink, and the batch on its way through the server *)

NoRequest == [pc |-> "none", header |-> NoHeader, ops |-> <<>>]
NoContext == [user |-> NullUser, verified |-> NoResult]

\* The authorization headers a request may arrive with: none, the header
\* headers() builds for a token, and headers that are not 'Bearer <token>'.
HeaderInputs ==
  {NoHeader, BearerPrefix}
    \cup UNION {{Bearer(Tok(i)),
                 <<"b", "e", "a", "r", "e", "r", " ", Tok(i)>>,
                 <<"B", "e", "a", "r", "e", "r", Tok(i)>>,
                 <<"B", "a", "s", "i", "c", " ", " ", Tok(i)>>,
                 <<Tok(i)>>} : i \in 1..(MaxTokens + 1)}

Batches == UNION {[1..n -> Operations] : n \in 1..MaxBatch}

\* The operations issued in one tick leave as one HTTP request.
SendRequest ==
  /\ request.pc = "none"
  /\ \E h \in HeaderInputs, ops \in Batches :
       request' = [pc |-> "received", header |-> h, ops |-> ops]
  /\ UNCHANGED <<clientVars, lastVerified, fetch, granted, ctx, responses, redirects>>

\* createContext up to its await: built once per HTTP request. A header
\* that does not start with 'Bearer ' gives the context at once; for one
\* that does, getUser is called with the token.
CreateContext ==
  /\ request.pc = "received"
  /\ IF Verifies(request.header)
     THEN /\ request' = [request EXCEPT !.pc = "getUser"]
          /\ UNCHANGED ctx
     ELSE /\ request' = [request EXCEPT !.pc = "context"]
          /\ ctx' = [user |-> ContextUser(request.header, NoResult),
                     verified |-> NoResult]
  /\ UNCHANGED <<clientVars, lastVerified, fetch, granted, responses, redirects>>

\* The provider answers getUser(token) with what it accepts at that moment.
GetUser ==
  /\ request.pc = "getUser"
  /\ \E r \in GetUserResults(Substring7(request.header)) :
       ctx' = [ctx EXCEPT !.verified = r]
  /\ request' = [request EXCEPT !.pc = "resume"]
  /\ UNCHANGED <<clientVars, lastVerified, fetch, granted, responses, redirects>>

\* createContext continues after the await and returns the context.
CreateContextResume ==
  /\ request.pc = "resume"
  /\ ctx' = [ctx EXCEPT !.user = ContextUser(request.header, ctx.verified)]
  /\ request' = [request EXCEPT !.pc = "context"]
  /\ UNCHANGED <<clientVars, lastVerified, fetch, granted, responses, redirects>>

\* The same continuation with its history kept: the token of the last
\* request whose verification gave a user.
CreateContextResumeTraced ==
  /\ request.pc = "resume"
  /\ ctx' = [ctx EXCEPT !.user = ContextUser(request.header, ctx.verified)]
  /\ lastVerified' = IF ContextUser(request.header, ctx.verified) # NullUser
                     THEN Substring7(request.header) ELSE lastVerified
  /\ request' = [request EXCEPT !.pc = "context"]
  /\ UNCHANGED <<clientVars, fetch, granted, responses, redirects>>

\* The router resolves every operation of the batch under that context.
Resolve ==
  /\ request.pc = "context"
  /\ responses' = [i \in 1..Len(request.ops) |->
                     [result |-> CallProcedure(request.ops[i], ctx), delivered |-> "no"]]
  /\ request' = [request EXCEPT !.pc = "responded"]
  /\ UNCHANGED <<clientVars, lastVerified, fetch, granted, ctx, redirects>>

\* The HTTP request fails as a whole: every operation gets an error that
\* carries no code.
RequestFails ==
  /\ request.pc \in {"received", "getUser", "resume", "context"}
  /\ responses' = [i \in 1..Len(request.ops) |->
                     [result |-> [kind |-> "error", code |-> "NONE"], delivered |-> "no"]]
  /\ request' = [request EXCEPT !.pc = "responded"]
  /\ UNCHANGED <<clientVars, lastVerified, fetch, granted, ctx, redirects>>

\* An error callback that redirected on every error.
RedirectsOnAnyError(result) == result.kind = "error"

\* errorLink's error callback: whether it assigns window.location.href.
Redirects(result) == result.kind = "error" /\ result.code = "UNAUTHORIZED"

\* errorLink's observer for one operation: next passes the value on; error
\* redirects on UNAUTHORIZED and passes the error on.
Delivery(result) == IF result.kind = "error" THEN "error" ELSE "next"

\* The results of the batch reach errorLink one operation after the other,
\* within the same tick.
Deliver ==
  /\ request.pc = "responded"
  /\ \E i \in 1..Len(responses) :
       /\ responses[i].delivered = "no"
       /\ \A j \in 1..(i - 1) : responses[j].delivered # "no"
       /\ responses' = [responses EXCEPT ![i].delivered = Delivery(responses[i].result)]
       /\ redirects' = IF Redirects(responses[i].result) THEN redirects + 1 ELSE redirects
       /\ request' = IF i = Len(responses) THEN [request EXCEPT !.pc = "done"] ELSE request
  /\ UNCHANGED <<clientVars, lastVerified, fetch, granted, ctx>>

\* Every result of the batch has been handed on; the next tick begins.
Settle ==
  /\ request.pc = "done"
  /\ request' = NoRequest
  /\ ctx' = NoContext
  /\ responses' = <<>>
  /\ redirects' = 0
  /\ UNCHANGED <<clientVars, lastVerified, fetch, granted>>

\* The provider revokes a token, or the token expires.
Revoke ==
  /\ \E g \in granted : granted' = granted \ {g}
  /\ UNCHANGED <<clientVars, lastVerified, fetch, request, ctx, responses, redirects>>

----------------------------------------------------------------------------
(* utils/trpc.ts: queryClientConfig.defaultOptions. React Query's retryer  *)
(* is an external collaborator: when an attempt fails it calls the retry   *)
(* option with the number of retries made so far and the error, and runs   *)
(* the query function again, counting one more, when the answer is true.   *)

\* The procedures exampleRouter builds with .mutation(); the others are
\* built with .query().
IsMutation(path) == path = "updateProfile"

\* React Query's own default for queries: three retries, whatever the error.
QueryRetryDefault(failureCount, code) == failureCount < 3

\* queries.retry: code is error?.data?.code ("NONE" for an error without).
QueryRetry(failureCount, code) ==
  IF code = "UNAUTHORIZED" THEN FALSE ELSE failureCount < 1

\* mutations.retry: false
MutationRetry == FALSE

\* The retry option the retryer consults for a procedure.
ShouldRetry(path, failureCount, code) ==
  IF IsMutation(path) THEN MutationRetry ELSE QueryRetry(failureCount, code)

NoOperation == [path |-> "none"]
IdleFetch == [pc |-> "idle", op |-> NoOperation, failureCount |-> 0, code |-> "NONE"]

\* A component runs a query or a mutation: the first attempt goes out as a
\* request of its own, with the header headers() gave it.
FetchStart ==
  /\ fetch.pc = "idle"
  /\ request.pc = "none"
  /\ \E op \in Operations, h \in HeaderInputs :
       /\ fetch' = [pc |-> "inflight", op |-> op, failureCount |-> 0, code |-> "NONE"]
       /\ request' = [pc |-> "received", header |-> h, ops |-> <<op>>]
  /\ UNCHANGED <<clientVars, lastVerified, granted, ctx, responses, redirects>>

\* The attempt's result has come through errorLink. Data resolves the
\* fetch; an error is put to the retry option, and either the query
\* function runs again (headers() is evaluated anew) or the fetch fails.
FetchSettle ==
  /\ fetch.pc = "inflight"
  /\ request.pc = "done"
  /\ IF responses[1].delivered = "next"
     THEN /\ fetch' = [fetch EXCEPT !.pc = "success"]
          /\ request' = NoRequest
     ELSE IF ShouldRetry(fetch.op.path, fetch.failureCount, responses[1].result.code)
     THEN /\ fetch' = [fetch EXCEPT !.failureCount = @ + 1,
                                    !.code = responses[1].result.code]
          /\ \E h \in HeaderInputs :
               request' = [pc |-> "received", header |-> h, ops |-> <<fetch.op>>]
     ELSE /\ fetch' = [fetch EXCEPT !.pc = "error", !.code = responses[1].result.code]
          /\ request' = NoRequest
  /\ ctx' = NoContext
  /\ responses' = <<>>
  /\ redirects' = 0
  /\ UNCHANGED <<clientVars, lastVerified, granted>>

\* The component has seen the fetch's data or error.
FetchDone ==
  /\ fetch.pc \in {"success", "error"}
  /\ fetch' = IdleFetch
  /\ UNCHANGED <<clientVars, lastVerified, granted, request, ctx, responses, redirects>>

----------------------------------------------------------------------------
(* Specifications *)

\* The sessions the provider may hold from an earlier visit when the
\* application starts.
PersistedSessions ==
  {NoSession} \cup {[access_token |-> Tok(1), user |-> su] : su \in SupabaseUsers}

\* The application has rendered: the Store holds the atom's initial value
\* and AuthProvider's effect has run once (Mount on the fresh component:
\* isMounted, initialize() up to its await, the subscription).
InitClient ==
  /\ authState = SetLoading(InitialAuthState, TRUE)
  /\ session \in PersistedSessions
  /\ issued = IF session = NoSession THEN 0 ELSE 1
  /\ events = <<>>
  /\ isMounted = TRUE
  /\ initializingRef = TRUE
  /\ init = [pc |-> "getSession", res |-> NoResult, closureMounted |-> TRUE]
  /\ signIn = IdleProc
  /\ signUp = IdleProc
  /\ signOut = IdleSignOut
  /\ call = IdleCall
  /\ uncleared = FALSE

InitTransport ==
  /\ fetch = IdleFetch
  /\ lastVerified = <<>>
  /\ request = NoRequest
  /\ ctx = NoContext
  /\ responses = <<>>
  /\ redirects = 0

Init == InitClient /\ InitTransport /\ granted = {}

\* The Store with its synchroniser and orchestrators.
Next ==
  \/ InitGetSession \/ InitResume \/ InitReturned
  \/ ProviderEvent \/ HandleEvent
  \/ SignInStart \/ SignInProvider \/ SignInResume
  \/ SignUpStart \/ SignUpProvider \/ SignUpResume
  \/ SetLoadingCall \/ ClearError
  \/ SignOutStart \/ SignOutProvider1 \/ SignOutResume1 \/ SignOutGetSession
  \/ SignOutResumeVerify \/ SignOutProvider2 \/ SignOutResume2 \/ SignOutReturned

Spec == Init /\ [][Next]_vars

\* Outgoing calls racing with start-up, sign-in and sign-out.
NextRpc ==
  \/ InitGetSession \/ InitResume \/ InitReturned \/ HandleEvent
  \/ SignInStart \/ SignInProvider \/ SignInResume
  \/ SignOutStart \/ SignOutProvider1 \/ SignOutResume1 \/ SignOutGetSession
  \/ SignOutResumeVerify \/ SignOutProvider2 \/ SignOutResume2 \/ SignOutReturned
  \/ CallStart \/ CallGetSession \/ CallResume \/ CallDone

SpecRpc == Init /\ [][NextRpc]_vars

\* Outgoing calls racing with start-up and sign-out alone: every Store a
\* sign-out passes through, with a call at each of its steps.
NextRpcSignOut ==
  \/ InitGetSession \/ InitResume \/ InitReturned \/ HandleEvent
  \/ SignOutStart \/ SignOutProvider1 \/ SignOutResume1 \/ SignOutGetSession
  \/ SignOutResumeVerify \/ SignOutProvider2 \/ SignOutResume2 \/ SignOutReturned
  \/ CallStart \/ CallGetSession \/ CallResume \/ CallDone

SpecRpcSignOut == Init /\ [][NextRpcSignOut]_vars

\* Start-up under React's effect cycle: the effect may be cleaned up and
\* run again while initialization, a sign-in or a sign-out is in flight.
NextStartup ==
  \/ Mount \/ Unmount \/ InitGetSession \/ InitResume \/ InitReturned
  \/ ProviderEvent \/ HandleEvent
  \/ SignInStart \/ SignInProvider \/ SignInResume
  \/ SignOutStart \/ SignOutProvider1 \/ SignOutResume1 \/ SignOutGetSession
  \/ SignOutResumeVerify \/ SignOutProvider2 \/ SignOutResume2 \/ SignOutReturned

SpecStartup == Init /\ [][NextStartup]_vars

\* The steps initialization takes once started, and those of a sign-out.
InitSteps == InitGetSession \/ InitResume \/ InitReturned
SignOutSteps ==
  \/ SignOutProvider1 \/ SignOutResume1 \/ SignOutGetSession
  \/ SignOutResumeVerify \/ SignOutProvider2 \/ SignOutResume2

\* Initialization, sign-in and sign-out where every provider call that was
\* made returns or fails in the end, so that a started run goes on.
NextLive ==
  \/ InitGetSession \/ InitResume \/ InitReturned \/ HandleEvent
  \/ SignInStart \/ SignInProvider \/ SignInResume
  \/ SignOutStart \/ SignOutProvider1 \/ SignOutResume1 \/ SignOutGetSession
  \/ SignOutResumeVerify \/ SignOutProvider2 \/ SignOutResume2 \/ SignOutReturned

SpecLive ==
  Init /\ [][NextLive]_vars /\ WF_vars(InitSteps) /\ WF_vars(SignOutSteps)

\* Sign-in and sign-up with what they give their callers.
NextCredentials ==
  \/ InitGetSession \/ InitResume \/ InitReturned \/ ProviderEvent \/ HandleEvent
  \/ SignInStart \/ SignInProvider \/ SignInSettle \/ SignInReturned
  \/ SignUpStart \/ SignUpProvider \/ SignUpSettle \/ SignUpReturned
  \/ SetLoadingCall \/ ClearError

SpecCredentials == Init /\ [][NextCredentials]_vars

\* The handler under every event the provider may hand it, with
\* initialization, sign-in and sign-out around it.
NextEvents ==
  \/ InitGetSession \/ InitResume \/ InitReturned
  \/ ProviderEvent \/ ProviderEventNoSession \/ HandleEvent
  \/ SignInStart \/ SignInProvider \/ SignInResume
  \/ SignOutStart \/ SignOutProvider1 \/ SignOutResume1 \/ SignOutGetSession
  \/ SignOutResumeVerify \/ SignOutProvider2 \/ SignOutResume2 \/ SignOutReturned

SpecEvents == Init /\ [][NextEvents]_vars

\* The four orchestrations and the handler, and no other writer of the
\* Store: what the application itself does to loading.
NextOrchestrators ==
  \/ InitGetSession \/ InitResume \/ InitReturned \/ HandleEvent
  \/ SignInStart \/ SignInProvider \/ SignInResume
  \/ SignUpStart \/ SignUpProvider \/ SignUpResume
  \/ SignOutStart \/ SignOutProvider1 \/ SignOutResume1 \/ SignOutGetSession
  \/ SignOutResumeVerify \/ SignOutProvider2 \/ SignOutResume2 \/ SignOutReturned

SpecOrchestrators == Init /\ [][NextOrchestrators]_vars

\* The tokens the provider accepts when the server starts: each issued
\* token belongs to one user, or is accepted no longer.
GrantSets ==
  {{[token |-> Tok(i), user |-> f[i]] : i \in S} :
      S \in SUBSET (1..MaxTokens), f \in [1..MaxTokens -> SupabaseUsers]}

\* The server is studied with the client at rest after start-up: the Store
\* holds what initializeAuthAtom made of the provider's session.
InitServer ==
  /\ session \in PersistedSessions
  /\ issued = IF session = NoSession THEN 0 ELSE 1
  /\ authState = InitOutcome([kind |-> "ok", session |-> session])
  /\ events = <<>>
  /\ isMounted = TRUE
  /\ initializingRef = FALSE
  /\ init = IdleInit
  /\ signIn = IdleProc
  /\ signUp = IdleProc
  /\ signOut = IdleSignOut
  /\ call = IdleCall
  /\ uncleared = FALSE
  /\ InitTransport
  /\ granted \in GrantSets

\* Batched requests through createContext, the router and errorLink.
NextServer ==
  \/ SendRequest \/ CreateContext \/ GetUser \/ CreateContextResume
  \/ Resolve \/ RequestFails \/ Deliver \/ Settle
  \/ Revoke

SpecServer == InitServer /\ [][NextServer]_vars

\* One query or mutation at a time through the server, with its retries.
NextRetry ==
  \/ FetchStart \/ CreateContext \/ GetUser \/ CreateContextResumeTraced
  \/ Resolve \/ RequestFails \/ Deliver
  \/ FetchSettle \/ FetchDone \/ Revoke

SpecRetry == InitServer /\ [][NextRetry]_vars

----------------------------------------------------------------------------
(* Properties *)

\* C1: in every reachable Store state, isAuthenticated = true implies
\* user != null, whatever the interleaving of initialization, sign-in,
\* sign-up, sign-out, provider events, setLoading and clearError.
AuthenticatedHasUser == authState.isAuthenticated => authState.user # NullUser

\* An authenticated Store on which a later orchestration has set loading.
AuthenticatedWhileLoading ==
  authState.isAuthenticated /\ authState.user # NullUser /\ authState.loading

\* C2: a call whose header decision begins after a sign-out of an
\* authenticated Store has returned (Store written isAuthenticated = false,
\* loading = false) carries no bearer token of the session that sign-out
\* left at the provider.
NoStaleCredential ==
  call.pc = "sent" => (call.stale = "" \/ call.header # Bearer(call.stale))

\* C3 (Scenario B): a header decision that reads isAuthenticated = false and
\* loading = false returns at once with no Authorization header, whatever
\* session the provider holds.
LoggedOutAttachesNothing ==
  (call.pc # "idle" /\ ~call.snap.isAuthenticated /\ ~call.snap.loading)
    => (call.pc = "sent" /\ call.lookup = "skipped" /\ call.header = NoHeader)

\* A call left without a header on a logged-out snapshot while the provider
\* holds a session.
LoggedOutCallWithLingeringSession ==
  /\ call.pc = "sent" /\ ~call.snap.isAuthenticated /\ ~call.snap.loading
  /\ call.header = NoHeader /\ session # NoSession

\* C4 (Scenario A): a header decision that reads isAuthenticated = false and
\* loading = true asks the provider, and attaches Bearer <token> exactly
\* when the provider returned a session with a token, nothing otherwise.
LoadingAttachesProviderToken ==
  (call.pc \in {"sent", "failed"} /\ ~call.snap.isAuthenticated /\ call.snap.loading)
    => /\ call.lookup # "skipped"
       /\ call.header = IF call.lookup \in {"none", "throw"} THEN NoHeader
                        ELSE Bearer(call.lookup)

\* A call sent with the provider's token while the Store was still loading.
LoadingCallWithToken ==
  /\ call.pc = "sent" /\ ~call.snap.isAuthenticated /\ call.snap.loading
  /\ call.lookup \notin {"none", "throw", "skipped"}
  /\ call.header = Bearer(call.lookup)

\* C5: a header decision that reads isAuthenticated = true attaches the
\* provider's token when it returns one; when it returns none the call goes
\* out without a header and does not fail; and no step of the decision
\* changes the Store.
AuthenticatedHeaderDecision ==
  (call.pc \in {"sent", "failed"} /\ call.snap.isAuthenticated)
    => /\ call.lookup # "skipped"
       /\ call.lookup = "none" => (call.header = NoHeader /\ call.pc = "sent")
       /\ call.lookup \notin {"none", "throw"}
            => (call.header = Bearer(call.lookup) /\ call.pc = "sent")

AuthenticatedAttachesOrProceeds ==
  /\ []AuthenticatedHeaderDecision
  /\ [][call' # call => authState' = authState]_vars

\* State mismatch: the Store said authenticated, the provider had no token,
\* the call left without a header.
StateMismatchCallSent ==
  /\ call.pc = "sent" /\ call.snap.isAuthenticated
  /\ call.lookup = "none" /\ call.header = NoHeader

\* The paths the integration tests call protected.
ProtectedPaths == {"getUser", "updateProfile"}

\* The result is the server's answer, not the failure of the HTTP request.
Answered(r) == ~(r.result.kind = "error" /\ r.result.code = "NONE")

\* C6: a protected operation fails with UNAUTHORIZED whenever
\* RequestContext.user is null and runs its handler whenever it is not; a
\* public operation runs its handler regardless.
ProtectedNeedsUser ==
  \A i \in DOMAIN responses :
    Answered(responses[i]) =>
      IF request.ops[i].path \in ProtectedPaths /\ ctx.user = NullUser
      THEN responses[i].result = [kind |-> "error", code |-> "UNAUTHORIZED"]
      ELSE responses[i].result = Handler(request.ops[i], ctx)

\* One batch in which a public operation ran and a protected one was
\* refused, under a null context user.
MixedBatchWithoutUser ==
  /\ ctx.user = NullUser
  /\ \E i, j \in DOMAIN responses :
       /\ request.ops[i].path \in ProtectedPaths
       /\ responses[i].result = [kind |-> "error", code |-> "UNAUTHORIZED"]
       /\ request.ops[j].path \notin ProtectedPaths
       /\ responses[j].result.kind = "data"

\* C7: createContext yields a user if and only if the Authorization header
\* begins with 'Bearer ' and the provider's verification of the token
\* returned a user without error; in every other case (no header, another
\* scheme, an error, no user, a rejection) the user is null.
ContextUserIffVerified ==
  /\ (ctx.user # NullUser)
       => /\ StartsWith(request.header, BearerPrefix)
          /\ ctx.verified.kind = "ok"
          /\ ~ctx.verified.error
          /\ ctx.verified.user # NullUser
  /\ (request.pc = "context" /\ ctx.user = NullUser)
       => ~(/\ StartsWith(request.header, BearerPrefix)
            /\ ctx.verified.kind = "ok"
            /\ ~ctx.verified.error
            /\ ctx.verified.user # NullUser)

\* The verification call threw and the request went on with a null user.
ContextAfterThrow ==
  /\ request.pc = "context"
  /\ StartsWith(request.header, BearerPrefix)
  /\ ctx.verified.kind = "throw"
  /\ ctx.user = NullUser

\* C8: a protected operation's handler returns data only in a request
\* whose bearer token the provider verified while the context of that
\* request was built, and the id it sees is the id the provider returned;
\* the Store plays no part.
HandlerSeesVerifiedIdentity ==
  \A i \in DOMAIN responses :
    (request.ops[i].path \in ProtectedPaths /\ responses[i].result.kind = "data")
      => /\ StartsWith(request.header, BearerPrefix)
         /\ ctx.verified.kind = "ok"
         /\ ~ctx.verified.error
         /\ ctx.verified.user # NullUser
         /\ responses[i].result.data.user.id = ctx.verified.user.id

\* A protected operation served on a verified token while the client's
\* Store is not authenticated.
ServedWithoutStore ==
  /\ ~authState.isAuthenticated
  /\ \E i \in DOMAIN responses :
       /\ request.ops[i].path \in ProtectedPaths
       /\ responses[i].result.kind = "data"
       /\ responses[i].result.data.user.id = ctx.verified.user.id

\* C9: at the step in which a sign-out orchestration returns, whether the
\* provider's signOut succeeded, returned an error or a provider call
\* threw, the Store is {isAuthenticated: false, user: null, loading: false,
\* error: null, loggingOut: false}.
SignOutEndsLoggedOut ==
  [][(signOut.pc # "returned" /\ signOut'.pc = "returned")
       => authState' = LoggedOutState]_vars

\* A sign-out that returned through its catch block, the provider still
\* holding the session.
SignOutCaughtAndReturned ==
  /\ signOut.pc = "returned" /\ signOut.exit = "caught"
  /\ session # NoSession
  /\ authState = LoggedOutState

\* C10: when every operation of a batch has failed with UNAUTHORIZED and
\* errorLink has seen them all, exactly one redirect has been triggered.
OneRedirectPerBatch ==
  (request.pc = "done" /\ \A i \in DOMAIN responses : Redirects(responses[i].result))
    => redirects = 1

\* The runs in flight: started and not yet returned.
InitInFlight == init.pc # "idle"
SignInInFlight == signIn.pc \notin {"idle", "returned"}
SignUpInFlight == signUp.pc \notin {"idle", "returned"}
SignOutInFlight == signOut.pc \notin {"idle", "returned"}

\* C11: at most one of initialization, sign-in, sign-up and sign-out is in
\* flight at any time; a run triggered while another is in flight does not
\* start.
AtMostOneInFlight ==
  Cardinality({p \in {"init", "signIn", "signUp", "signOut"} :
                 \/ p = "init" /\ InitInFlight
                 \/ p = "signIn" /\ SignInInFlight
                 \/ p = "signUp" /\ SignUpInFlight
                 \/ p = "signOut" /\ SignOutInFlight}) <= 1

\* C12: from a sign-out's first write until its last, loggingOut stays
\* true: no state with loggingOut = false is seen while the sign-out is in
\* flight.
LoggingOutHeld == SignOutInFlight => authState.loggingOut

\* C13: every sign-out that starts returns in the end, with loggingOut =
\* false, on every exit path (each provider call returning or failing).
SignOutEventuallyClearsFlag ==
  SignOutInFlight ~> (signOut.pc = "returned" /\ ~authState.loggingOut)

\* A sign-out that found the session still there, retried, and returned
\* with the flag cleared.
SignOutRetriedAndReturned ==
  signOut.pc = "returned" /\ signOut.exit = "retried" /\ ~authState.loggingOut

\* C16: every initialization run ends, with loading = false, whether the
\* lookup found a session, found none, returned an error or threw.
InitEventuallyStopsLoading ==
  (init.pc \in {"getSession", "resume"})
    ~> (init.pc = "returned" /\ ~authState.loading)

\* Initialization ended on the provider's error with loading = false.
InitEndedOnProviderError ==
  init.pc = "idle" /\ ~authState.loading /\ authState.error \in Messages

\* C14: a provider event whose handler runs while initialization is in
\* flight is dropped: the handler leaves the Store as it was.
EventDuringInitDropped ==
  [][(events # <<>> /\ events' = Tail(events) /\ InitInFlight)
       => authState' = authState]_vars

\* The SIGNED_IN of a sign-in answered during initialization has been
\* handed to the handler, and the Store is still the loading one.
SignedInDroppedDuringInit ==
  /\ InitInFlight /\ init.closureMounted /\ isMounted
  /\ signIn.pc = "resume" /\ events = <<>>
  /\ ~authState.isAuthenticated /\ authState.loading

\* C15: when initialization completes after every event emitted so far has
\* been handed to the handler (and dropped), the Store it writes is not
\* older than those events: it is not authenticated from a lookup taken
\* before a SIGNED_OUT that was dropped.
InitSupersedesDropped ==
  [][(init.pc = "resume" /\ init'.pc = "returned" /\ events = <<>>)
       => (authState'.isAuthenticated => session # NoSession)]_vars

\* C17: when the start-up lookup returns an error or throws, initialization
\* ends with the Store {isAuthenticated: false, user: null, loading: false,
\* error: <message>, loggingOut: false}, the message not null.
InitFailureEndsInError ==
  [][(init.pc = "getSession" /\ init'.pc = "returned")
       => (authState' = ErrorState(authState'.error) /\ authState'.error # NoError)]_vars

\* Initialization ended in its catch block on a rejection that carried no
\* message.
InitEndedOnDefaultMessage ==
  init.pc = "idle" /\ authState = ErrorState(DefaultInitMessage)

\* The step in which a sign-in / sign-up run hands its result to its caller.
SignInReturns == signIn.pc # "returned" /\ signIn'.pc = "returned"
SignUpReturns == signUp.pc # "returned" /\ signUp'.pc = "returned"

\* The Store keeps isAuthenticated, user and error, and is not loading.
OnlyLoadingCleared ==
  /\ ~authState'.loading
  /\ authState'.isAuthenticated = authState.isAuthenticated
  /\ authState'.user = authState.user
  /\ authState'.error = authState.error

\* C18: a sign-in or sign-up whose provider call returned an error or threw
\* ends with loading = false, throws the provider's error to its caller,
\* and writes neither isAuthenticated nor user nor error.
CredentialFailureOnlyStopsLoading ==
  [][/\ (SignInReturns /\ signIn'.ret.threw)
          => (OnlyLoadingCleared /\ signIn'.ret.error \in Messages)
     /\ (SignUpReturns /\ signUp'.ret.threw)
          => (OnlyLoadingCleared /\ signUp'.ret.error \in Messages)]_vars

\* A sign-in has thrown to its caller and the Store is logged out, idle.
SignInThrewToCaller ==
  /\ signIn.pc = "returned" /\ signIn.ret.threw
  /\ ~authState.loading /\ ~authState.isAuthenticated /\ authState.error = NoError

\* The provider's answer held both a user and an established session.
Established(proc) ==
  proc.pc = "resume" /\ proc.res.user # NullUser /\ proc.res.session # NoSession

\* C19: sign-in and sign-up replace the Store with {isAuthenticated: true,
\* user, loading: false, error: null, loggingOut: false}, user built from
\* the provider's user, when the provider returned a user and a session;
\* in every other case they leave isAuthenticated and user as they were.
CredentialsReplaceIffEstablished ==
  [][/\ SignInReturns =>
          IF Established(signIn)
          THEN authState' = AuthenticatedState(ToUser(signIn.res.user))
          ELSE authState' = [authState EXCEPT !.loading = FALSE]
     /\ SignUpReturns =>
          IF Established(signUp)
          THEN authState' = AuthenticatedState(ToUser(signUp.res.user))
          ELSE authState' = [authState EXCEPT !.loading = FALSE]]_vars

\* A sign-up returned success and the Store holds the user it returned.
SignUpAuthenticated ==
  /\ signUp.pc = "returned" /\ ~signUp.ret.threw /\ signUp.ret.success
  /\ ~signUp.ret.needsConfirmation
  /\ authState = AuthenticatedState(signUp.ret.user)

\* C20: when the provider returned a user without an established session,
\* the run changes nothing in the Store but loading := false, and tells its
\* caller needsConfirmation = true.
PendingConfirmationOnlyStopsLoading ==
  [][/\ (SignInReturns /\ signIn.pc = "provider" /\ ~signIn'.ret.threw
           /\ signIn'.ret.user # NullUser)
          => (authState' = [authState EXCEPT !.loading = FALSE]
              /\ signIn'.ret.needsConfirmation)
     /\ (SignUpReturns /\ signUp.pc = "provider" /\ ~signUp'.ret.threw
           /\ signUp'.ret.user # NullUser)
          => (authState' = [authState EXCEPT !.loading = FALSE]
              /\ signUp'.ret.needsConfirmation)]_vars

\* A sign-in told its caller that confirmation is pending; the Store is
\* not authenticated and not loading.
SignInNeedsConfirmation ==
  /\ signIn.pc = "returned" /\ ~signIn.ret.threw /\ signIn.ret.needsConfirmation
  /\ ~signIn.ret.success
  /\ ~authState.isAuthenticated /\ ~authState.loading

\* C21: a sign-out never fails to its caller: whichever provider call
\* returned an error or threw, the run leaves flight only by returning, and
\* its promise resolves.
SignOutNeverThrows ==
  /\ [](signOut.pc = "returned" => SignOutCompletion(signOut.exit) = "returns")
  /\ [][(SignOutInFlight /\ ~SignOutInFlight') => signOut'.pc = "returned"]_vars

\* A sign-out whose verification lookup threw after the session was
\* removed has returned normally to handleLogout.
SignOutAbsorbedThrow ==
  /\ signOut.pc = "returned" /\ signOut.exit = "caught"
  /\ SignOutCompletion(signOut.exit) = "returns"
  /\ session = NoSession /\ issued > 0 /\ authState = LoggedOutState

\* C22: one sign-out invokes the provider's signOut at most twice. The
\* first invocation is made when the run starts; the second is made if and
\* only if the verification lookup that followed the first still returned a
\* session; whatever the second invocation answers, the run returns.
SignOutRetriesOnce ==
  [][/\ (signOut'.pc = "signOut1" /\ signOut.pc # "signOut1") => signOut.pc = "idle"
     /\ (signOut'.pc = "signOut2" /\ signOut.pc # "signOut2")
          => (signOut.pc = "resumeVerify" /\ signOut.res.session # NoSession)
     /\ (signOut.pc = "resumeVerify" /\ signOut' # signOut)
          => (signOut'.pc = "signOut2" <=> signOut.res.session # NoSession)
     /\ (signOut.pc = "getSession" /\ signOut' # signOut)
          => signOut'.pc \in {"resumeVerify", "returned"}
     /\ (signOut.pc \in {"signOut2", "resume2"} /\ signOut' # signOut)
          => signOut'.pc \in {"resume2", "returned"}]_vars

\* The retry has been made and removed the session the first call left.
SecondSignOutAnswered ==
  signOut.pc = "resume2" /\ session = NoSession /\ authState.loggingOut

\* C23: no reachable Store state has loading = true together with a
\* non-null error: every mutation that turns loading on, or writes while
\* it is on, leaves error null.
LoadingClearsError == authState.loading => authState.error = NoError

\* A sign-in begun on the Store that a failed initialization left: the
\* provider holds the persisted session, the Store is loading, no error.
LoadingAfterInitError ==
  /\ init.pc = "idle" /\ signIn.pc = "provider" /\ signOut.pc = "idle"
  /\ session # NoSession /\ issued = 1 /\ ~uncleared
  /\ ~authState.isAuthenticated /\ authState.loading /\ authState.error = NoError

\* C24: an UNAUTHORIZED result is intercepted by errorLink and is not
\* handed to the error path of the caller that issued the operation.
UnauthorizedNotDelivered ==
  \A i \in DOMAIN responses :
    Redirects(responses[i].result) => responses[i].delivered # "error"

\* C25: an error whose code is not UNAUTHORIZED goes through errorLink to
\* the caller's error path as it came, and the step assigns no redirect.
OtherErrorsPassThrough ==
  [][\A i \in DOMAIN responses :
       (/\ i \in DOMAIN responses'
        /\ responses[i].delivered = "no" /\ responses'[i].delivered # "no"
        /\ responses[i].result.kind = "error"
        /\ responses[i].result.code # "UNAUTHORIZED")
         => /\ responses'[i].delivered = "error"
            /\ responses'[i].result = responses[i].result
            /\ redirects' = redirects]_vars

\* A batch whose HTTP request failed has been handed to its callers as
\* errors, and nothing was redirected.
FailedRequestDelivered ==
  /\ request.pc = "done" /\ redirects = 0
  /\ \A i \in DOMAIN responses :
       /\ responses[i].result = [kind |-> "error", code |-> "NONE"]
       /\ responses[i].delivered = "error"
  /\ \E i \in DOMAIN responses : request.ops[i].path \in ProtectedPaths

\* C26: a query that failed with UNAUTHORIZED is not run again; a query
\* that failed with another error is run again at most once; a mutation is
\* never run again.
RetryPolicy ==
  /\ [](fetch.failureCount <= 1)
  /\ [](IsMutation(fetch.op.path) => fetch.failureCount = 0)
  /\ [][fetch'.failureCount > fetch.failureCount
         => (~IsMutation(fetch.op.path)
             /\ responses[1].result.code # "UNAUTHORIZED")]_vars

\* A query whose request failed was run once more, was refused as
\* UNAUTHORIZED, and was given up.
RetriedOnceThenUnauthorized ==
  /\ fetch.pc = "error" /\ ~IsMutation(fetch.op.path)
  /\ fetch.failureCount = 1 /\ fetch.code = "UNAUTHORIZED"

\* C27: a header decision that reads isAuthenticated = false sends the
\* call without a bearer token.
UnauthenticatedSendsNoToken ==
  (call.pc = "sent" /\ ~call.snap.isAuthenticated) => call.header = NoHeader

\* The event kinds whose handler branch reads the session user.
SessionEvents == {"SIGNED_IN", "TOKEN_REFRESHED", "USER_UPDATED"}

\* C28: once initialization has ended, the handler applies each event as
\* one replace of the whole Store: SIGNED_IN, TOKEN_REFRESHED or
\* USER_UPDATED with a session user writes {isAuthenticated: true, user
\* built from the event's session user, loading: false, error: null,
\* loggingOut: false}; SIGNED_OUT writes the logged-out state; any other
\* event, and one of the three without a session user, writes nothing.
EventAppliedAsReplace ==
  [][(events # <<>> /\ events' = Tail(events) /\ isMounted /\ ~initializingRef)
       => IF Head(events).event \in SessionEvents /\ Head(events).user # NullUser
            THEN authState' = AuthenticatedState(ToUser(Head(events).user))
          ELSE IF Head(events).event = "SIGNED_OUT"
            THEN authState' = LoggedOutState
          ELSE authState' = authState]_vars

\* The handler has applied the SIGNED_IN of a first sign-in whose
\* continuation has not yet run: the Store holds the event's user.
SignedInAppliedByHandler ==
  /\ signIn.pc = "resume" /\ issued = 1 /\ init.pc = "idle" /\ events = <<>>
  /\ session # NoSession
  /\ authState = AuthenticatedState(ToUser(session.user))

\* C29: a result that arrives after the effect was cleaned up changes
\* nothing in the Store: neither a provider event handed to the callback of
\* the unmounted closure, nor the completion of the start-up lookup that
\* this closure began.
LateResultsIgnored ==
  [][(\/ (init.pc # "returned" /\ init'.pc = "returned" /\ ~init.closureMounted)
      \/ (events # <<>> /\ events' = Tail(events) /\ ~isMounted))
       => authState' = authState]_vars

\* C30: the context is built anew for every request from the provider's
\* answer to the getUser call of that request: a request starts without a
\* context; the provider names a user only for a token it accepts when it
\* is asked; the context's user is built from that answer and from nothing
\* kept of an earlier request. A token that gave a user on an earlier
\* request and was revoked or has expired before it is asked about again
\* gives user = null.
ContextVerifiedPerRequest ==
  [][/\ (request'.pc = "received" /\ request.pc # "received") => ctx' = NoContext
     /\ (request.pc = "getUser" /\ request'.pc = "resume")
          => ((ctx'.verified.kind = "ok" /\ ctx'.verified.user # NullUser)
                => \E g \in granted : /\ <<g.token>> = Substring7(request.header)
                                      /\ ctx'.verified.user = g.user)
     /\ (request'.pc = "context" /\ request.pc # "context")
          => (ctx'.user # NullUser
                => /\ request.pc = "resume"
                   /\ ctx.verified.kind = "ok"
                   /\ ctx.verified.user # NullUser
                   /\ ctx'.user = ContextUserOf(ctx.verified.user))]_vars

\* A token gave a context user on an earlier request; the request at hand
\* carries that token, the provider accepts it no longer, and the context
\* built for it has no user.
RevokedTokenGivesNoUser ==
  /\ request.pc = "context"
  /\ lastVerified # <<>>
  /\ Verifies(request.header) /\ Substring7(request.header) = lastVerified
  /\ \A g \in granted : <<g.token>> # lastVerified
  /\ ctx.user = NullUser

\* C31: a sign-out runs in order. Its first step writes the Store before
\* any provider call and changes loggingOut only; the verification lookup
\* is issued only once the first provider signOut has answered; the final
\* replace at the end of the try block is made only after the verification
\* and, when there is one, after the retry.
SignOutStepOrder ==
  [][/\ (signOut.pc = "idle" /\ signOut'.pc # "idle")
          => /\ signOut'.pc = "signOut1"
             /\ authState' = [authState EXCEPT !.loggingOut = TRUE]
             /\ session' = session /\ events' = events
     /\ (signOut'.pc = "getSession" /\ signOut.pc # "getSession")
          => signOut.pc \in {"signOut1", "resume1"}
     /\ (signOut'.pc = "returned" /\ signOut.pc # "returned"
           /\ signOut'.exit = "cleared")
          => signOut.pc \in {"getSession", "resumeVerify"}
     /\ (signOut'.pc = "returned" /\ signOut.pc # "returned"
           /\ signOut'.exit = "retried")
          => signOut.pc \in {"signOut2", "resume2"}]_vars

\* The first write is made and the provider has not been called: the
\* Store is still authenticated, with the flag set.
SignOutFirstWriteOnly ==
  /\ signOut.pc = "signOut1" /\ session # NoSession
  /\ authState.loggingOut /\ authState.isAuthenticated /\ authState.user # NullUser

\* C32: an initialization run makes one session lookup and no more, and an
\* initialize trigger that arrives while a run is in flight does nothing:
\* no lookup is issued and the Store is not written.
InitLooksUpOnce ==
  [][/\ (init'.pc = "getSession" /\ init.pc # "getSession")
          => (init.pc = "idle" /\ ~isMounted /\ isMounted')
     /\ (init.pc = "resume" /\ init'.pc # "resume") => init'.pc = "returned"
     /\ (init.pc = "returned" /\ init'.pc # "returned") => init'.pc = "idle"
     /\ (~isMounted /\ isMounted' /\ InitInFlight)
          => (init' = init /\ authState' = authState
              /\ initializingRef' = initializingRef)]_vars

\* The effect ran again while the lookup of the earlier closure was
\* pending: that run is the only one, and the Store is as it left it.
RetriggeredDuringInit ==
  /\ isMounted /\ init.pc = "getSession" /\ ~init.closureMounted
  /\ initializingRef /\ authState = SetLoading(InitialAuthState, TRUE)

\* C33: on every Store state the program reaches, setLoading(false)
\* changes loading only; setLoading(true) changes loading and error only;
\* clearError changes error only, and applied twice gives what it gives
\* applied once.
StoreTransitionFrames ==
  /\ SetLoading(authState, FALSE) = [authState EXCEPT !.loading = FALSE]
  /\ SetLoading(authState, TRUE) = [authState EXCEPT !.loading = TRUE, !.error = NoError]
  /\ ClearErrorOf(authState) = [authState EXCEPT !.error = NoError]
  /\ ClearErrorOf(ClearErrorOf(authState)) = ClearErrorOf(authState)

\* A Store on which the three transitions all differ: an error is shown,
\* a sign-out has set its flag, and a sign-up has turned loading on and
\* off again.
ErrorShownWhileLoggingOut ==
  /\ authState.error # NoError /\ authState.loggingOut /\ ~authState.loading
  /\ SetLoading(authState, TRUE) # ClearErrorOf(authState)
  /\ SetLoading(authState, FALSE) = authState

\* C34: once a sign-out has completed, the Store does not become
\* authenticated again without a new sign-in or sign-up: an event handed
\* to the handler for a session that sign-out left at the provider, while
\* no orchestration is running, leaves the Store unauthenticated.
NoReauthenticationAfterSignOut ==
  [][(/\ uncleared /\ ~authState.isAuthenticated
      /\ init.pc = "idle" /\ signIn.pc = "idle" /\ signUp.pc = "idle"
      /\ signOut.pc \in {"idle", "returned"}
      /\ events # <<>> /\ events' = Tail(events))
       => ~authState'.isAuthenticated]_vars

\* C35: a call whose header is produced while the Store is definitively
\* logged out (isAuthenticated = false, loading = false) leaves without a
\* bearer token, also when the Store became logged out while the header
\* decision was waiting for the provider's lookup.
LoggedOutAtProductionSendsNoToken ==
  [][(/\ call.pc \in {"getSession", "resume"} /\ call'.pc = "sent"
      /\ ~authState.isAuthenticated /\ ~authState.loading)
       => call'.header = NoHeader]_vars

\* C36: whenever an initialization run has completed, initializingRef is
\* false again, also when the effect was cleaned up while the lookup was
\* pending; later events are then applied and a later initialize trigger
\* starts a run.
InitDoneClearsFlag == init.pc = "idle" => ~initializingRef

\* C37: a sign-out ends only the session that was there when it began: a
\* session established by a sign-in after the sign-out began is not
\* removed by the retry.
RetryKeepsNewSession ==
  [][(/\ signOut.pc = "signOut2" /\ signOut'.pc = "resume2"
      /\ signOut.began > 0 /\ session # NoSession
      /\ TokenIndex(session.access_token) > signOut.began)
       => session' = session]_vars

\* C38: whenever neither an initialization nor a sign-in nor a sign-up is
\* in flight, loading is false: loading = true implies that one of them
\* is running.
LoadingImpliesInFlight ==
  authState.loading => (InitInFlight \/ SignInInFlight \/ SignUpInFlight)

\* A sign-up is still waiting for the provider while a sign-in that began
\* after it has ended and turned loading off.
SignUpPendingNotLoading ==
  /\ init.pc = "idle" /\ signIn.pc = "idle" /\ signUp.pc = "provider"
  /\ signOut.pc = "idle" /\ ~authState.loading /\ ~authState.isAuthenticated

\* C39: in every reachable state, loggingOut = true implies that a
\* sign-out is in flight: only the sign-out's first write sets it, and no
\* interleaving leaves it set once the sign-out has returned.
LoggingOutImpliesSignOut == authState.loggingOut => SignOutInFlight

\* The flag set by a sign-out has gone through the setLoading(true) of a
\* sign-in that began while the sign-out was waiting for the provider.
LoggingOutThroughSetLoading ==
  /\ authState.loggingOut /\ authState.loading
  /\ signOut.pc = "resume1" /\ signIn.pc = "provider"

\* The values the Store's error field takes.
ErrorValues == {NoError, DefaultInitMessage} \cup Messages

\* C40: the header decision reads isAuthenticated and loading of the Store
\* and nothing else: Store states that differ in loggingOut or error only
\* take the same branch, and a call issued while a sign-out is in flight,
\* the Store still authenticated with loggingOut = true, asks the provider
\* and carries the token it returns.
HeaderIgnoresLoggingOutAndError ==
  /\ [](\A lo \in BOOLEAN, e \in ErrorValues :
          /\ HeadersBranch([authState EXCEPT !.loggingOut = lo, !.error = e])
               = HeadersBranch(authState)
          /\ Snapshot([authState EXCEPT !.loggingOut = lo, !.error = e])
               = Snapshot(authState))
  /\ [][(/\ call.pc = "idle" /\ call'.pc # "idle"
          /\ authState.loggingOut /\ authState.isAuthenticated)
           => (call'.pc = "getSession" /\ call'.snap.isAuthenticated)]_vars
  /\ [][(/\ call.pc = "getSession" /\ call'.pc = "resume" /\ session # NoSession)
           => call'.lookup = session.access_token]_vars
  /\ [][(/\ call.pc = "resume" /\ call'.pc = "sent" /\ call.snap.isAuthenticated
          /\ call.lookup # "none")
           => call'.header = Bearer(call.lookup)]_vars

\* A call that began after the sign-out's first write has left with the
\* provider's token, the sign-out still waiting for the provider.
CallSentDuringSignOut ==
  /\ call.pc = "sent" /\ call.snap.isAuthenticated
  /\ session # NoSession /\ call.header = Bearer(session.access_token)
  /\ signOut.pc = "signOut1" /\ authState.loggingOut /\ authState.isAuthenticated
  /\ init.pc = "idle" /\ signIn.pc = "idle"

====
